---- MODULE Spec2Model ----
(***************************************************************************)
(* A model of latex_cli.py: the interactive loop (main_cli_loop), one      *)
(* compile attempt (run_latex_compiler) and the viewer processes           *)
(* (show_pdf_viewer).  Text is modelled as sequences of one-character      *)
(* strings, bytes as sequences of byte names, the workspace as a directory *)
(* flag and the set of the files in it.                                    *)
(***************************************************************************)
EXTENDS Integers, Sequences, FiniteSets, TLC

VARIABLES
    pc,        \* position of the main process
    lines,     \* main_cli_loop: the buffer `lines`
    line,      \* main_cli_loop: the last value of `line`
    hist,      \* history: the raw lines read since `lines` was last []
    code_snippet, \* run_latex_compiler: the argument code_snippet
    dir,       \* the workspace directory exists
    files,     \* the extensions of the files that exist in the workspace
    texFile,   \* content of _temp.tex (when it exists)
    pdfFile,   \* content of _temp.pdf (when it exists)
    returncode, \* process.returncode
    stdout,    \* process.stdout
    logLines,  \* history: the lines the compiler printed
    pdf_bytes, \* run_latex_compiler: the local pdf_bytes
    ci,        \* index of the cleanup loop over the four extensions
    printed,   \* what was printed since the prompt was last shown
    attempts,  \* number of calls of run_latex_compiler so far
    nComp,     \* compiler subprocesses spawned by the current call
    nView,     \* viewer subprocesses spawned by the current call
    rmFailed,  \* a removal of the current call or of the exit handler failed
    exc,       \* the exception that left main_cli_loop, or "none"
    viewers    \* the viewer processes spawned so far

vars == <<pc, lines, line, hist, code_snippet, dir, files, texFile, pdfFile, returncode,
          stdout, logLines, pdf_bytes, ci, printed, attempts, nComp, nView,
          rmFailed, exc, viewers>>

mainVars == <<pc, lines, line, hist, code_snippet, dir, files, texFile, pdfFile, returncode,
              stdout, logLines, pdf_bytes, ci, printed, attempts, nComp, nView,
              rmFailed, exc>>

(***************************************************************************)
(* Bounds.                                                                 *)
(***************************************************************************)
MaxLines == 2       \* lines buffered before a compile, varied input
MaxLinesFew == 1    \* lines buffered before a compile, otherwise
MaxAttempts == 2    \* calls of run_latex_compiler in one run
MaxLogLines == 6    \* lines of compiler output

(***************************************************************************)
(* Text.                                                                   *)
(***************************************************************************)
NL == "\n"

Min(a, b) == IF a < b THEN a ELSE b

\* str.join
RECURSIVE Join(_, _)
Join(ls, sep) ==
    IF ls = <<>> THEN <<>>
    ELSE IF Len(ls) = 1 THEN ls[1]
    ELSE ls[1] \o sep \o Join(Tail(ls), sep)

Whitespace == {" ", NL, "\t"}

RECURSIVE LStripSet(_, _)
LStripSet(s, cs) ==
    IF s # <<>> /\ Head(s) \in cs THEN LStripSet(Tail(s), cs) ELSE s

RECURSIVE RStripSet(_, _)
RStripSet(s, cs) ==
    IF s # <<>> /\ s[Len(s)] \in cs THEN RStripSet(SubSeq(s, 1, Len(s) - 1), cs) ELSE s

\* str.strip()
Strip(s) == RStripSet(LStripSet(s, Whitespace), Whitespace)

LowerChar(c) == IF c = "C" THEN "c" ELSE IF c = "X" THEN "x" ELSE c

\* str.lower()
Lower(s) == [i \in DOMAIN s |-> LowerChar(s[i])]

\* str.splitlines() of text whose only line boundary is "\n"
RECURSIVE SplitAcc(_, _, _)
SplitAcc(s, cur, acc) ==
    IF s = <<>> THEN (IF cur # <<>> THEN Append(acc, cur) ELSE acc)
    ELSE IF Head(s) = NL THEN SplitAcc(Tail(s), <<>>, Append(acc, cur))
    ELSE SplitAcc(Tail(s), Append(cur, Head(s)), acc)

SplitLines(s) == SplitAcc(s, <<>>, <<>>)

\* str.startswith("!")
StartsWithBang(l) == l # <<>> /\ l[1] = "!"

(***************************************************************************)
(* Messages: each a sequence of strings, so that it compares with text.    *)
(***************************************************************************)
PromptEmpty == <<">>> ">>
PromptMore == <<"... ">>
MsgNoCode == <<"No code to compile.">>
MsgCompiling == <<"Compiling...">>
MsgErrorHeader == <<"--- LaTeX Compilation Error ---">>
MsgUnknown == <<"An unknown error occurred. Check the .log file.">>
MsgSuccess == <<"Compilation successful! Displaying preview...">>
MsgNoPdf == <<"Error: PDF file was not created by the compiler.">>
MsgPreviewError == <<"--- Preview Generation Error ---">>
MsgExiting == <<"Exiting.">>

(***************************************************************************)
(* main_cli_loop: the pure parts.                                          *)
(***************************************************************************)
CompileCommand == <<":", "c">>

IsCompileCommandNoStrip(l) == Lower(l) = CompileCommand

\* line.strip().lower() == ":c"
IsCompileCommand(l) == Lower(Strip(l)) = CompileCommand

StripAllWhitespace(l) == RStripSet(l, Whitespace)

\* line.rstrip("\n")
StripNewline(l) == RStripSet(l, {NL})

JoinNoSeparator(ls) == Join(ls, <<>>)

\* "\n".join(lines)
JoinLines(ls) == Join(ls, <<NL>>)

(***************************************************************************)
(* run_latex_compiler: the pure parts.                                     *)
(***************************************************************************)
\* The document template around the code_snippet (the preamble and the closing
\* line are one token each).
Wrap(s) == <<"\\documentclass[preview, border=5pt]{standalone}...\\begin{document}", NL>>
           \o s \o <<NL, "\\end{document}", NL>>

SnippetLines == 5

FirstBang(ls) ==
    LET hits == {i \in DOMAIN ls : StartsWithBang(ls[i])}
    IN  IF hits = {} THEN 0 ELSE CHOOSE i \in hits : \A j \in hits : i <= j

LastBang(ls) ==
    LET hits == {i \in DOMAIN ls : StartsWithBang(ls[i])}
    IN  IF hits = {} THEN 0 ELSE CHOOSE i \in hits : \A j \in hits : i >= j

ErrorSnippetFromLast(out) ==
    LET log_lines == SplitLines(out)
        i == LastBang(log_lines)
    IN  IF i = 0 THEN MsgUnknown
        ELSE JoinLines(SubSeq(log_lines, i, Min(i + SnippetLines - 1, Len(log_lines))))

\* the error_snippet computed from process.stdout
ErrorSnippet(out) ==
    LET log_lines == SplitLines(out)
        i == FirstBang(log_lines)
    IN  IF i = 0 THEN MsgUnknown
        ELSE JoinLines(SubSeq(log_lines, i, Min(i + SnippetLines - 1, Len(log_lines))))

CleanupExtsNoTex == <<".aux", ".log", ".pdf">>

\* the extensions the cleanup loop goes through
CleanupExts == <<".tex", ".aux", ".log", ".pdf">>

(***************************************************************************)
(* The environment of a run: the lines standard input may deliver, what    *)
(* the compiler may print and leave behind, and which operations of the    *)
(* operating system may fail.                                              *)
(***************************************************************************)
\* The text of a compiler output: every line ends with "\n", except that
\* the last one need not when it is not empty.
OutputText(o) ==
    LET t == Join(o.ls, <<NL>>)
    IN  IF o.ls # <<>> /\ o.nl THEN t \o <<NL>> ELSE t

SeqsUpTo(S, n) == UNION {[1..k -> S] : k \in 0..n}

Outputs(lineSet, n) ==
    {o \in [ls : SeqsUpTo(lineSet, n), nl : BOOLEAN] :
        o.nl \/ (o.ls # <<>> /\ o.ls[Len(o.ls)] # <<>>)}

ProperPrefixes(b) ==
    IF b = <<>> THEN {<<>>} ELSE {SubSeq(b, 1, k) : k \in 0..(Len(b) - 1)}

MainFaults == {"makedirs", "write_tex", "spawn_compiler", "decode", "read_pdf",
               "spawn_viewer", "write_pipe", "remove", "rmtree"}

ViewerFaults == {"import", "stdin", "decode_pdf", "render", "build", "mainloop"}

(***************************************************************************)
(* main_cli_loop.                                                          *)
(***************************************************************************)
NoLocals ==
    /\ code_snippet' = <<>>
    /\ returncode' = 0
    /\ stdout' = <<>>
    /\ logLines' = <<>>
    /\ pdf_bytes' = <<>>
    /\ ci' = 1

\* The content of a file ends with the file.
Forget ==
    /\ texFile' = IF ".tex" \in files' THEN texFile ELSE <<>>
    /\ pdfFile' = IF ".pdf" \in files' THEN pdfFile ELSE <<>>

\* An exception nothing catches: it leaves main_cli_loop.
Raise(e) ==
    /\ pc' = "crashed"
    /\ exc' = e

\* Lines 185-186: the prompt.
ShowPrompt ==
    /\ pc = "top"
    /\ printed' = <<(IF lines = <<>> THEN PromptEmpty ELSE PromptMore)>>
    /\ pc' = "read"
    /\ UNCHANGED <<lines, line, hist, code_snippet, dir, files, texFile,
                   pdfFile, returncode, stdout, logLines, pdf_bytes, ci,
                   attempts, nComp, nView, rmFailed, exc, viewers>>

\* Lines 187-200: one line is read and dispatched; the sentinel on a
\* non-empty buffer enters run_latex_compiler.
ReadLine(E) ==
    /\ pc = "read"
    /\ \E l \in E.lines :
        /\ line' = l
        /\ IF l = <<>>
           THEN /\ pc' = "handler"
                /\ UNCHANGED <<lines, hist, code_snippet, printed, attempts, nComp,
                               nView, rmFailed>>
           ELSE IF IsCompileCommand(l)
           THEN IF lines = <<>>
                THEN /\ printed' = Append(printed, MsgNoCode)
                     /\ pc' = "top"
                     /\ UNCHANGED <<lines, hist, code_snippet, attempts, nComp,
                                    nView, rmFailed>>
                ELSE /\ attempts < MaxAttempts
                     /\ code_snippet' = JoinLines(lines)
                     /\ attempts' = attempts + 1
                     /\ nComp' = 0
                     /\ nView' = 0
                     /\ rmFailed' = FALSE
                     /\ pc' = "mkdir"
                     /\ UNCHANGED <<lines, hist, printed>>
           ELSE /\ Len(lines) < E.maxLines
                /\ lines' = Append(lines, StripNewline(l))
                /\ hist' = Append(hist, l)
                /\ pc' = "top"
                /\ UNCHANGED <<code_snippet, printed, attempts, nComp, nView, rmFailed>>
    /\ UNCHANGED <<dir, files, texFile, pdfFile, returncode, stdout, logLines,
                   pdf_bytes, ci, exc, viewers>>

\* os.rmdir in its place: only an empty directory goes.
RemoveDirOnlyIfEmpty(E) ==
    \/ /\ files = {}
       /\ dir' = FALSE
       /\ files' = {}
       /\ rmFailed' = FALSE
    \/ /\ files # {}
       /\ rmFailed' = FALSE
       /\ UNCHANGED <<dir, files>>

\* shutil.rmtree(temp_dir, ignore_errors=True): the tree is gone, or an
\* error is swallowed and the directory stays with what was not removed.
RemoveTree(E) ==
    \/ /\ dir' = FALSE
       /\ files' = {}
       /\ rmFailed' = FALSE
    \/ /\ "rmtree" \in E.faults
       /\ files' \in SUBSET files
       /\ rmFailed' = TRUE
       /\ UNCHANGED dir

\* Lines 201-206: the handler of KeyboardInterrupt and EOFError; the break
\* ends main_cli_loop and with it its locals.
ExitHandler(E) ==
    /\ pc = "handler"
    /\ printed' = Append(printed, MsgExiting)
    /\ IF dir THEN RemoveTree(E)
              ELSE /\ rmFailed' = FALSE
                   /\ UNCHANGED <<dir, files>>
    /\ pc' = "done"
    /\ lines' = <<>>
    /\ line' = <<>>
    /\ hist' = <<>>
    /\ Forget
    /\ UNCHANGED <<code_snippet, returncode, stdout, logLines, pdf_bytes, ci, attempts,
                   nComp, nView, exc, viewers>>

InTry == {"top", "read", "mkdir", "write_tex", "run", "report", "read_pdf",
          "spawn", "write_pipe", "close_pipe", "cleanup"}

\* A keyboard interrupt: inside the try statement of the loop it reaches the
\* handler, unwinding run_latex_compiler when it is inside a call
\* (subprocess.run kills the compiler, which may have written some of its
\* files); inside the handler nothing catches it.
Interrupt(E) ==
    \/ /\ pc \in InTry
       /\ pc' = "handler"
       /\ IF pc = "run"
          THEN \E a \in E.arts, p \in E.pdfs :
                  /\ files' = files \cup a
                  /\ pdfFile' = IF ".pdf" \in a THEN p ELSE pdfFile
          ELSE UNCHANGED <<files, pdfFile>>
       /\ NoLocals
       /\ UNCHANGED <<lines, line, hist, dir, texFile, printed, attempts, nComp,
                      nView, rmFailed, exc, viewers>>
    \/ /\ pc = "handler"
       /\ Raise("KeyboardInterrupt")
       /\ UNCHANGED <<lines, line, hist, code_snippet, dir, files, texFile, pdfFile,
                      returncode, stdout, logLines, pdf_bytes, ci, printed, attempts,
                      nComp, nView, rmFailed, viewers>>

(***************************************************************************)
(* run_latex_compiler.                                                     *)
(***************************************************************************)
\* Line 109: os.makedirs(temp_dir, exist_ok=True).
MakeDirs(E) ==
    /\ pc = "mkdir"
    /\ \/ /\ dir' = TRUE
          /\ pc' = "write_tex"
          /\ UNCHANGED exc
       \/ /\ "makedirs" \in E.faults
          /\ Raise("OSError: makedirs")
          /\ UNCHANGED dir
    /\ UNCHANGED <<lines, line, hist, code_snippet, files, texFile, pdfFile, returncode,
                   stdout, logLines, pdf_bytes, ci, printed, attempts, nComp,
                   nView, rmFailed, viewers>>

\* Lines 115-118: the wrapped source is written, "Compiling..." is printed.
WriteTex(E) ==
    /\ pc = "write_tex"
    /\ \/ /\ files' = files \cup {".tex"}
          /\ texFile' = Wrap(code_snippet)
          /\ printed' = Append(printed, MsgCompiling)
          /\ pc' = "run"
          /\ UNCHANGED exc
       \/ /\ "write_tex" \in E.faults
          /\ Raise("OSError: open")
          /\ UNCHANGED <<files, texFile, printed>>
    /\ UNCHANGED <<lines, line, hist, code_snippet, dir, pdfFile, returncode, stdout,
                   logLines, pdf_bytes, ci, attempts, nComp, nView, rmFailed,
                   viewers>>

\* Lines 125-131: subprocess.run.  The compiler cannot be started, or it
\* runs to its end, leaves some of its files and prints its output, which
\* subprocess.run may fail to decode.
RunCompiler(E) ==
    /\ pc = "run"
    /\ \/ /\ "spawn_compiler" \in E.faults
          /\ Raise("FileNotFoundError: pdflatex")
          /\ UNCHANGED <<files, pdfFile, returncode, stdout, logLines, nComp>>
       \/ \E a \in E.arts, o \in E.outs, r \in {0, 1} :
          \E p \in (IF ".pdf" \in a THEN E.pdfs ELSE {pdfFile}) :
             /\ files' = files \cup a
             /\ pdfFile' = p
             /\ nComp' = nComp + 1
             /\ \/ /\ returncode' = r
                   /\ stdout' = OutputText(o)
                   /\ logLines' = o.ls
                   /\ pc' = "report"
                   /\ UNCHANGED exc
                \/ /\ "decode" \in E.faults
                   /\ Raise("UnicodeDecodeError")
                   /\ UNCHANGED <<returncode, stdout, logLines>>
    /\ UNCHANGED <<lines, line, hist, code_snippet, dir, texFile, pdf_bytes, ci,
                   printed, attempts, nView, rmFailed, viewers>>

PdfNeverMissing(f) == FALSE

\* Line 145: not os.path.exists(pdf_path).
PdfMissing(f) == ".pdf" \notin f

\* Lines 133-147: the error excerpt on a non-zero status; on status zero the
\* success notice and the test for the PDF, whose absence returns at once
\* (line 147), to line 197 of main_cli_loop.
Report ==
    /\ pc = "report"
    /\ IF returncode # 0
       THEN /\ printed' = printed \o <<MsgErrorHeader, ErrorSnippet(stdout)>>
            /\ pc' = "cleanup"
            /\ UNCHANGED <<lines, hist, code_snippet, returncode, stdout, logLines,
                           pdf_bytes, ci>>
       ELSE IF PdfMissing(files)
       THEN /\ printed' = printed \o <<MsgSuccess, MsgNoPdf>>
            /\ pc' = "top"
            /\ lines' = <<>>
            /\ hist' = <<>>
            /\ NoLocals
       ELSE /\ printed' = Append(printed, MsgSuccess)
            /\ pc' = "read_pdf"
            /\ UNCHANGED <<lines, hist, code_snippet, returncode, stdout, logLines,
                           pdf_bytes, ci>>
    /\ UNCHANGED <<line, dir, files, texFile, pdfFile, attempts, nComp, nView,
                   rmFailed, exc, viewers>>

\* Lines 163-164: except Exception.
PreviewError ==
    /\ printed' = Append(printed, MsgPreviewError)
    /\ pc' = "cleanup"

\* Lines 149-150: the whole PDF is read.
ReadPdf(E) ==
    /\ pc = "read_pdf"
    /\ \/ /\ ".pdf" \in files
          /\ pdf_bytes' = pdfFile
          /\ pc' = "spawn"
          /\ UNCHANGED printed
       \/ /\ ".pdf" \notin files \/ "read_pdf" \in E.faults
          /\ PreviewError
          /\ UNCHANGED pdf_bytes
    /\ UNCHANGED <<lines, line, hist, code_snippet, dir, files, texFile, pdfFile, returncode,
                   stdout, logLines, ci, attempts, nComp, nView, rmFailed, exc,
                   viewers>>

NewViewer == [st |-> "import", input |-> <<>>, pipe |-> "open", window |-> FALSE]

\* Lines 154-160: subprocess.Popen of the viewer.
SpawnViewer(E) ==
    /\ pc = "spawn"
    /\ \/ /\ viewers' = Append(viewers, NewViewer)
          /\ nView' = nView + 1
          /\ pc' = "write_pipe"
          /\ UNCHANGED printed
       \/ /\ "spawn_viewer" \in E.faults
          /\ PreviewError
          /\ UNCHANGED <<viewers, nView>>
    /\ UNCHANGED <<lines, line, hist, code_snippet, dir, files, texFile, pdfFile, returncode,
                   stdout, logLines, pdf_bytes, ci, attempts, nComp, rmFailed, exc>>

WrittenTruncated(b) == IF b = <<>> THEN b ELSE SubSeq(b, 1, Len(b) - 1)

\* Line 161: what viewer_process.stdin.write(pdf_bytes) puts into the pipe.
Written(b) == b

\* Line 161: the write, the pipe taken to hold the whole PDF; when it fails
\* (a flush at line 162 that fails counts here) only a part has reached the
\* pipe, which is then dropped unclosed.
WritePipe(E) ==
    /\ pc = "write_pipe"
    /\ LET v == Len(viewers) IN
       \/ /\ viewers' = [viewers EXCEPT ![v].input = Written(pdf_bytes)]
          /\ pc' = "close_pipe"
          /\ UNCHANGED printed
       \/ /\ "write_pipe" \in E.faults
          /\ \E part \in ProperPrefixes(pdf_bytes) :
                viewers' = [viewers EXCEPT ![v].input = part, ![v].pipe = "broken"]
          /\ PreviewError
    /\ UNCHANGED <<lines, line, hist, code_snippet, dir, files, texFile, pdfFile, returncode,
                   stdout, logLines, pdf_bytes, ci, attempts, nComp, nView,
                   rmFailed, exc>>

CanReturnWaiting(v) == v.st \in {"exited", "swallowed", "uncaught"}

\* What the launcher needs of the viewer before it goes on: nothing.
CanReturn(v) == TRUE

\* Line 162: viewer_process.stdin.close().
ClosePipe ==
    /\ pc = "close_pipe"
    /\ CanReturn(viewers[Len(viewers)])
    /\ viewers' = [viewers EXCEPT ![Len(viewers)].pipe = "closed"]
    /\ pc' = "cleanup"
    /\ UNCHANGED <<lines, line, hist, code_snippet, dir, files, texFile, pdfFile, returncode,
                   stdout, logLines, pdf_bytes, ci, printed, attempts, nComp,
                   nView, rmFailed, exc>>

\* Lines 167-173: one round of the cleanup loop; after the last one the
\* call returns to line 197 of main_cli_loop.
Cleanup(E) ==
    /\ pc = "cleanup"
    /\ LET ext == CleanupExts[ci] IN
       \/ /\ files' = files \ {ext}
          /\ UNCHANGED rmFailed
       \/ /\ ext \in files
          /\ "remove" \in E.faults
          /\ rmFailed' = TRUE
          /\ UNCHANGED files
    /\ IF ci < Len(CleanupExts)
       THEN /\ ci' = ci + 1
            /\ UNCHANGED <<pc, lines, hist, code_snippet, returncode, stdout, logLines, pdf_bytes>>
       ELSE /\ pc' = "top"
            /\ lines' = <<>>
            /\ hist' = <<>>
            /\ NoLocals
    /\ Forget
    /\ UNCHANGED <<line, dir, printed, attempts, nComp, nView, exc, viewers>>

(***************************************************************************)
(* show_pdf_viewer, one process per spawned viewer.                        *)
(***************************************************************************)
ViewerTo(i, st) == viewers' = [viewers EXCEPT ![i].st = st]

\* Lines 22-25: the imports, outside the try statement.
ViewerImport(E) ==
    /\ \E i \in DOMAIN viewers :
        /\ viewers[i].st = "import"
        /\ \/ ViewerTo(i, "read")
           \/ /\ "import" \in E.faults
              /\ ViewerTo(i, "uncaught")
    /\ UNCHANGED mainVars

\* Lines 27-29: standard input is read to its end, outside the try
\* statement; empty input returns.
ViewerRead(E) ==
    /\ \E i \in DOMAIN viewers :
        /\ viewers[i].st = "read"
        /\ \/ /\ viewers[i].pipe # "open"
              /\ ViewerTo(i, IF viewers[i].input = <<>> THEN "exited" ELSE "decode")
           \/ /\ "stdin" \in E.faults
              /\ ViewerTo(i, "uncaught")
    /\ UNCHANGED mainVars

\* Lines 32-33: fitz.open and load_page(0).
ViewerDecode ==
    /\ \E i \in DOMAIN viewers :
        /\ viewers[i].st = "decode"
        /\ ViewerTo(i, "render")
    /\ UNCHANGED mainVars

\* Lines 35-39: the text, the pixmap and the image.
ViewerRender ==
    /\ \E i \in DOMAIN viewers :
        /\ viewers[i].st = "render"
        /\ ViewerTo(i, "build")
    /\ UNCHANGED mainVars

\* Lines 41-85: the window, its menu and bindings, its place.
ViewerBuild ==
    /\ \E i \in DOMAIN viewers :
        /\ viewers[i].st = "build"
        /\ viewers' = [viewers EXCEPT ![i].st = "mainloop", ![i].window = TRUE]
    /\ UNCHANGED mainVars

\* Lines 60-62 and 87: close_viewer destroys the window, mainloop returns.
ViewerClose ==
    /\ \E i \in DOMAIN viewers :
        /\ viewers[i].st = "mainloop"
        /\ ViewerTo(i, "exited")
    /\ UNCHANGED mainVars

FaultOf(st) ==
    CASE st = "decode" -> "decode_pdf"
      [] st = "render" -> "render"
      [] st = "build" -> "build"
      [] st = "mainloop" -> "mainloop"
      [] OTHER -> "none"

\* Lines 89-91: an exception inside the try statement is passed over.  One
\* raised while the window is built may come after tk.Tk() made the window.
ViewerSwallow(E) ==
    /\ \E i \in DOMAIN viewers :
        /\ FaultOf(viewers[i].st) \in E.faults
        /\ \E w \in (IF viewers[i].st = "build" THEN BOOLEAN ELSE {viewers[i].window}) :
              viewers' = [viewers EXCEPT ![i].st = "swallowed", ![i].window = w]
    /\ UNCHANGED mainVars

(***************************************************************************)
(* The program.                                                            *)
(***************************************************************************)
Init ==
    /\ pc = "top"
    /\ lines = <<>>
    /\ line = <<>>
    /\ hist = <<>>
    /\ code_snippet = <<>>
    /\ dir = FALSE
    /\ files = {}
    /\ texFile = <<>>
    /\ pdfFile = <<>>
    /\ returncode = 0
    /\ stdout = <<>>
    /\ logLines = <<>>
    /\ pdf_bytes = <<>>
    /\ ci = 1
    /\ printed = <<>>
    /\ attempts = 0
    /\ nComp = 0
    /\ nView = 0
    /\ rmFailed = FALSE
    /\ exc = "none"
    /\ viewers = <<>>

run_latex_compiler(E) ==
    \/ MakeDirs(E)
    \/ WriteTex(E)
    \/ RunCompiler(E)
    \/ Report
    \/ ReadPdf(E)
    \/ SpawnViewer(E)
    \/ WritePipe(E)
    \/ ClosePipe
    \/ Cleanup(E)

main_cli_loop(E) ==
    \/ ShowPrompt
    \/ ReadLine(E)
    \/ run_latex_compiler(E)
    \/ ExitHandler(E)
    \/ Interrupt(E)

show_pdf_viewer(E) ==
    \/ ViewerImport(E)
    \/ ViewerRead(E)
    \/ ViewerDecode
    \/ ViewerRender
    \/ ViewerBuild
    \/ ViewerClose
    \/ ViewerSwallow(E)

\* Input lines: a code line, the sentinel, end of input.
FewLines == {<<"x", NL>>, <<":", "c", NL>>, <<>>}

\* Input lines with padding, capitals and a missing last newline.
ManyLines == {<<"x", NL>>, <<" ", "x", " ", NL>>, <<"x">>, <<NL>>,
              <<":", "c", "x", NL>>, <<":", "c", NL>>, <<" ", ":", "C", " ", NL>>,
              <<":", "c">>, <<>>}

FewOutputs == {[ls |-> <<>>, nl |-> TRUE], [ls |-> <<<<"!", "e">>, <<"x">>>>, nl |-> TRUE]}

LogLineSet == {<<"!", "e">>, <<"x", "!">>, <<>>}

Pdf == <<"b1", "b2">>

\* The interactive loop under varied input, the compiler and the system
\* behaving; viewers are spawned and not yet scheduled.
ReplEnv == [lines |-> ManyLines, maxLines |-> MaxLines, outs |-> FewOutputs,
            arts |-> {{".aux", ".log", ".pdf"}, {".aux", ".log"}},
            pdfs |-> {Pdf}, faults |-> {}]

NextRepl == main_cli_loop(ReplEnv)

SpecRepl == Init /\ [][NextRepl]_vars

\* Compile attempts under every outcome of the compiler and every failure
\* of the system; viewers are spawned and not yet scheduled.
CompileEnv == [lines |-> FewLines, maxLines |-> MaxLinesFew, outs |-> FewOutputs,
               arts |-> SUBSET {".aux", ".log", ".pdf"},
               pdfs |-> {<<>>, Pdf}, faults |-> MainFaults]

NextCompile == main_cli_loop(CompileEnv)

SpecCompile == Init /\ [][NextCompile]_vars

\* Compile attempts under varied compiler output.
ErrEnv == [lines |-> FewLines, maxLines |-> MaxLinesFew,
           outs |-> Outputs(LogLineSet, MaxLogLines),
           arts |-> {{".aux", ".log", ".pdf"}}, pdfs |-> {Pdf}, faults |-> {}]

NextErr == main_cli_loop(ErrEnv)

SpecErr == Init /\ [][NextErr]_vars

\* The main process together with the viewers it spawns.
ViewerEnv == [lines |-> FewLines, maxLines |-> MaxLinesFew,
              outs |-> {[ls |-> <<>>, nl |-> TRUE]},
              arts |-> {{".aux", ".log", ".pdf"}},
              pdfs |-> {<<>>, Pdf}, faults |-> ViewerFaults]

NextViewer == main_cli_loop(ViewerEnv) \/ show_pdf_viewer(ViewerEnv)

SpecViewer == Init /\ [][NextViewer]_vars

(***************************************************************************)
(* Properties.                                                             *)
(***************************************************************************)
Last(q) == q[Len(q)]

\* The call of run_latex_compiler that was made last has returned.
Returned == pc \in {"top", "read"} /\ attempts > 0

\* An exception raised inside run_latex_compiler has left main_cli_loop.
CallRaised == pc = "crashed" /\ exc # "KeyboardInterrupt"

\* C1: after a call of run_latex_compiler that returned, none of the four
\* files _temp.tex, _temp.aux, _temp.log, _temp.pdf exists in the workspace,
\* when no removal of that call failed.
C1_NoArtifactsAfterCall == (Returned /\ ~rmFailed) => files = {}

\* C2: no failure of a step of run_latex_compiler ends the loop: nothing but
\* a keyboard interrupt inside the exit handler ever leaves main_cli_loop as
\* an exception.
C2_FailuresCaught == pc = "crashed" => exc = "KeyboardInterrupt"

\* A line equals the compile sentinel after trimming and lower-casing.
Sentinel(l) == Lower(Strip(l)) = <<":", "c">>

\* A line with only its trailing newline removed.
Chop(l) == IF l # <<>> /\ Last(l) = NL THEN SubSeq(l, 1, Len(l) - 1) ELSE l

\* A step of the loop that read a line and went on.
ReadStep == pc = "read" /\ pc' \notin {"read", "handler"}

\* C3: the buffer holds the non-sentinel lines read since it was last empty,
\* in input order, each with only its trailing newline removed; reading the
\* sentinel on a non-empty buffer makes exactly one call of
\* run_latex_compiler, whose code_snippet is those lines joined by newlines; no
\* other step makes a call; and the buffer is empty when the call returns to
\* the prompt.
C3_SentinelCompilesBuffer ==
    /\ [](lines = [i \in DOMAIN hist |-> Chop(hist[i])])
    /\ [][(ReadStep /\ Sentinel(line') /\ lines # <<>>)
            => /\ pc' = "mkdir"
               /\ attempts' = attempts + 1
               /\ code_snippet' = Join([i \in DOMAIN hist |-> Chop(hist[i])], <<NL>>)]_vars
    /\ [][attempts' # attempts
            => (ReadStep /\ Sentinel(line') /\ lines # <<>>)]_vars
    /\ [][(pc \notin {"top", "read"} /\ pc' = "top") => lines' = <<>>]_vars

C3_Witness ==
    /\ pc = "mkdir"
    /\ hist = << <<" ", "x", " ", NL>>, <<"x">> >>
    /\ line = <<" ", ":", "C", " ", NL>>
    /\ code_snippet = <<" ", "x", " ", NL, "x">>

\* C4: reading the sentinel while the buffer is empty makes no call of
\* run_latex_compiler, prints the notice, leaves the buffer empty and the
\* workspace and the viewers as they were, and goes back to the prompt.
C4_SentinelOnEmptyBuffer ==
    [][(ReadStep /\ Sentinel(line') /\ lines = <<>>)
         => /\ pc' = "top"
            /\ printed' = Append(printed, MsgNoCode)
            /\ lines' = <<>>
            /\ attempts' = attempts
            /\ nComp' = nComp
            /\ <<dir, files, texFile, pdfFile>>' = <<dir, files, texFile, pdfFile>>
            /\ viewers' = viewers]_vars

\* The notice is printed, in a workspace an earlier attempt left files in.
C4_Witness ==
    /\ pc = "top"
    /\ line = <<" ", ":", "C", " ", NL>>
    /\ printed = <<PromptEmpty, MsgNoCode>>
    /\ lines = <<>>
    /\ dir
    /\ files = {".tex", ".aux", ".log"}
    /\ attempts = 1

\* C5: when the compiler exited with status zero and the PDF does not
\* exist, the call prints the PDF-not-created error, spawns no viewer and
\* returns to the loop without raising.
C5_MissingPdf ==
    [][(pc = "report" /\ returncode = 0 /\ ".pdf" \notin files /\ pc' \notin {"report", "handler"})
         => /\ pc' = "top"
            /\ exc' = "none"
            /\ Last(printed') = MsgNoPdf
            /\ nView' = 0
            /\ viewers' = viewers]_vars

C5_Witness ==
    /\ pc = "top"
    /\ attempts = 1
    /\ nComp = 1
    /\ printed = <<PromptMore, MsgCompiling, MsgSuccess, MsgNoPdf>>
    /\ viewers = <<>>

Bang(l) == Len(l) > 0 /\ l[1] = "!"

\* Lines i to i+4 of the output, fewer when it ends sooner, joined by
\* newlines, for i the first line that starts with "!"; the generic text
\* when there is none.
C7_Expected(ls) ==
    IF \A i \in DOMAIN ls : ~Bang(ls[i]) THEN MsgUnknown
    ELSE LET i == CHOOSE k \in DOMAIN ls : Bang(ls[k]) /\ \A j \in 1..(k - 1) : ~Bang(ls[j])
             n == IF i + 4 <= Len(ls) THEN 5 ELSE Len(ls) - i + 1
         IN  Join([k \in 1..n |-> ls[i + k - 1]], <<NL>>)

\* C7: on a non-zero exit status the message printed is the excerpt of the
\* compiler's output: its lines i to i+4 joined by newlines, i the first
\* line starting with "!", or the generic unknown-error text.
C7_ErrorExcerpt ==
    (pc = "cleanup" /\ returncode # 0) => Last(printed) = C7_Expected(logLines)

C7_Witness ==
    /\ pc = "cleanup"
    /\ returncode # 0
    /\ logLines = << <<"x", "!">>, <<"!", "e">>, <<>>, <<"!", "e">>, <<"x", "!">>, <<"x", "!">> >>
    /\ Last(printed) = <<"!", "e", NL, NL, "!", "e", NL, "x", "!", NL, "x", "!">>

\* C8: no exception leaves a viewer process, and a viewer whose input was
\* empty has made no window.
C8_ViewerSwallowsAll ==
    \A i \in DOMAIN viewers :
        /\ viewers[i].st # "uncaught"
        /\ (viewers[i].pipe # "open" /\ viewers[i].input = <<>>) => ~viewers[i].window

\* What C9 says of the pipe and of the order of the steps: a viewer is
\* spawned only after status zero with the PDF in place and read, the bytes
\* in a closed pipe are the bytes read, and the PDF is deleted only later.
C9_PipeCarriesPdf ==
    /\ nView > 0 => (returncode = 0 \/ Returned)
    /\ pc \in {"spawn", "write_pipe", "close_pipe"}
         => (returncode = 0 /\ ".pdf" \in files /\ pdf_bytes = pdfFile)
    /\ (pc = "cleanup" /\ nView = 1 /\ Last(viewers).pipe = "closed")
         => (Last(viewers).input = pdf_bytes /\ (ci = 1 => pdf_bytes = pdfFile))

C10_ViewersIndependent ==
    /\ [](pc = "close_pipe" => ENABLED ClosePipe)
    /\ [][mainVars' # mainVars
            => \A i \in DOMAIN viewers :
                  viewers[i].pipe # "open" => viewers'[i] = viewers[i]]_vars

\* The loop has ended while the window of the first of two viewers is open.
C10_Witness ==
    /\ pc = "done"
    /\ Len(viewers) = 2
    /\ viewers[1].st = "mainloop"
    /\ viewers[1].window

====
